---- MODULE Spec2Model ----
(***************************************************************************)
(* Model of CodeCellManager (lines 714-1068): execution of code cells in   *)
(* sandboxed iframes, with debounce timers, per-cell version counters,     *)
(* pending promise resolvers and the window "message" handler; and of      *)
(* LlmManager (lines 14-711): the provider registry, the model cache and   *)
(* its refresh, the resolution of model ids and the completion calls.      *)
(*                                                                         *)
(* One step of the model is one synchronous piece of JavaScript: a call of *)
(* a public method up to its first await, the continuation after an await, *)
(* a timer callback, an iframe load event, a message event, or one step of *)
(* the code running inside a sandbox.                                      *)
(***************************************************************************)
EXTENDS Integers, Sequences, FiniteSets, TLC

\* Bounds of the model.
MaxRuns == 2        \* calls of runCodeCell that get past the cell lookup
MaxTimers == 2      \* setTimeout calls
MaxRefreshes == 2   \* calls of refreshModelCache

\* The notebook: two code cells and one cell of another type.
CodeCells == {"a", "b"}
OtherCells == {"m"}
Cells == CodeCells \cup OtherCells

\* The cells the callers pass: every cell is run; the debounced runs and the
\* stops are those of cell "a", with cell "b" running beside it.
ScheduleInputs == {"a"}
StopInputs == {"a"}
BesideCells == {"b"}

NoPending == [resolve |-> 0, version |-> 0]
NoOutcome == [type |-> "none", error |-> ""]
StoppedOutcome == [type |-> "code-error", error |-> "Stopped by user."]
SendFailedOutcome == [type |-> "code-error", error |-> "Failed to start sandbox."]

VARIABLES
  sandboxes,         \* this._sandboxes: cellId -> iframe (0: no entry)
  codeRunTimers,     \* this._codeRunTimers: cellId -> timeout id (0: no entry)
  codeRunning,       \* this._codeRunning: set of cellIds
  codeVersions,      \* this._codeVersions: cellId -> counter (0: no entry)
  codeStartTimes,    \* this._codeStartTimes: cellIds that have a start time
  pendingResolvers,  \* this._pendingResolvers: cellId -> {resolve, version}
  iframes,           \* iframes created so far: [cell, phase]
  timers,            \* armed timeouts: [id, cell]
  timerCount,        \* setTimeout calls so far (ids are never reused)
  runs,              \* calls of runCodeCell: [cell, iframe, pc, version, outcome]
  jobs,              \* code-exec requests executing inside a sandbox
  inbox,             \* message events queued for handleSandboxMessage
  cellState,         \* the cells as written through updateCells
  callerTask,        \* a caller's synchronous code is still on the stack
  lastDispatched,    \* history: cellId -> the run whose code-exec was posted last
  lastArmed,         \* history: cellId -> the timeout scheduleCodeRun armed last
  lastOp,            \* history: the step taken last
  storage,           \* localStorage[LLM_SETTINGS_KEY], parsed
  providers,         \* this.settings.providers
  cachedModels,      \* this.settings.cachedModels
  cacheTimestamp,    \* this.settings.cacheTimestamp (a logical clock)
  refreshModelsInFlight,  \* this.refreshModelsInFlight
  modelCacheStatus,  \* what updateModelCacheStatus wrote last: [text, type]
  refreshes,         \* the loops of refreshModelCache, suspended or done
  refreshCount,      \* calls of refreshModelCache so far
  overrideGiven,     \* the last call passed a non-empty providersFromDialog
  listCalls,         \* history: the providers fetchModelsForProvider was called for
  llmOp              \* history: the step of LlmManager taken last

codeVars == <<sandboxes, codeRunTimers, codeRunning, codeVersions,
              codeStartTimes, pendingResolvers, iframes, timers, timerCount,
              runs, jobs, inbox, cellState, callerTask, lastDispatched,
              lastArmed, lastOp>>

llmVars == <<storage, providers, cachedModels, cacheTimestamp,
             refreshModelsInFlight, modelCacheStatus, refreshes, refreshCount,
             overrideGiven,
             listCalls, llmOp>>

vars == <<codeVars, llmVars>>

\* A history entry: the step, its cell, its result, the run or timeout it
\* concerned, and (for a delivered message) whether the handler changed the
\* manager's bookkeeping or the cell state, and whether a reply with the
\* message's cellId and version had been accepted before.
Op(op, cell, result, n) ==
  [op |-> op, cell |-> cell, result |-> result, n |-> n, changed |-> FALSE,
   again |-> FALSE]

\* constructor (lines 721-733): empty maps; no cell has run yet.
CodeCellInit ==
  /\ sandboxes = [c \in CodeCells |-> 0]
  /\ codeRunTimers = [c \in CodeCells |-> 0]
  /\ codeRunning = {}
  /\ codeVersions = [c \in CodeCells |-> 0]
  /\ codeStartTimes = {}
  /\ pendingResolvers = [c \in CodeCells |-> NoPending]
  /\ iframes = <<>>
  /\ timers = {}
  /\ timerCount = 0
  /\ runs = <<>>
  /\ jobs = {}
  /\ inbox = <<>>
  /\ cellState = [c \in CodeCells |->
                    [lastOutput |-> 0, error |-> "", stale |-> TRUE,
                     status |-> "none", durationMs |-> "none"]]
  /\ callerTask = FALSE
  /\ lastDispatched = [c \in CodeCells |-> 0]
  /\ lastArmed = [c \in CodeCells |-> 0]
  /\ lastOp = Op("init", "", "", 0)

----------------------------------------------------------------------------
\* Scheduling of the single JavaScript thread.

ReadyRuns(rs) == {f \in DOMAIN rs : rs[f].pc = "ready"}

\* A public method can be called when nothing is queued as a microtask, or
\* from the synchronous code that made the call which queued it.
CanCall == callerTask \/ ReadyRuns(runs) = {}

\* Timer callbacks, load events and message events are tasks: they start
\* only when the microtask queue is empty.
CanStartTask == ReadyRuns(runs) = {}

----------------------------------------------------------------------------
\* Helpers over the model's collections.

\* clearTimeout(t): a no-op for an id that is not armed.
ClearTimeout(ts, t) == {x \in ts : x.id # t}

\* An iframe is "created" when appended with its srcdoc (lines 746-809),
\* "listening" once the srcdoc script has registered its message listener
\* (line 770), "loaded" once onload has fired (line 749) and "removed" after
\* iframe.remove() (line 1033).

\* document.body.contains(iframe); such an iframe has a contentWindow.
Attached(i) == i \in DOMAIN iframes /\ iframes[i].phase # "removed"

\* A message posted to the iframe's window reaches the sandbox's listener.
Listening(i) == i \in DOMAIN iframes /\ iframes[i].phase \in {"listening", "loaded"}

\* Mutant of Resolve: the resolver is dropped without being called.
ResolveDropped(rs, f, outcome) == rs

\* pending.resolve(outcome): settles the promise runCodeCell returned.
Resolve(rs, f, outcome) ==
  IF f \in DOMAIN rs /\ rs[f].pc = "dispatched"
  THEN [rs EXCEPT ![f].pc = "resolved", ![f].outcome = outcome]
  ELSE rs

----------------------------------------------------------------------------
\* ensureSandbox (lines 741-812).

\* Mutant of SandboxReusable: an iframe is reused only once it has loaded.
SandboxReusableOnceLoaded(c) ==
  sandboxes[c] # 0 /\ iframes[sandboxes[c]].phase = "loaded"

\* Line 743: the cell has an iframe and it is still in the document.
SandboxReusable(c) == sandboxes[c] # 0 /\ Attached(sandboxes[c])

\* The iframe the returned promise resolves to, whether that promise is
\* already resolved (Promise.resolve, line 743) or waits for onload (line
\* 749), and the document and the map after the call (lines 809-810).
ensureSandbox(c) ==
  IF SandboxReusable(c)
  THEN [iframe |-> sandboxes[c], resolved |-> TRUE,
        iframes |-> iframes, sandboxes |-> sandboxes]
  ELSE [iframe |-> Len(iframes) + 1, resolved |-> FALSE,
        iframes |-> Append(iframes,
                      [cell |-> c, phase |-> "created"]),
        sandboxes |-> [sandboxes EXCEPT ![c] = Len(iframes) + 1]]

\* The srcdoc script runs (lines 755-805) and registers the listener; the
\* load event has not been dispatched yet.
SandboxScriptRan(i) ==
  /\ CanStartTask
  /\ iframes[i].phase = "created"
  /\ iframes' = [iframes EXCEPT ![i].phase = "listening"]
  /\ callerTask' = FALSE
  /\ lastOp' = Op("sandbox", "", "", 0)
  /\ UNCHANGED <<sandboxes, codeRunTimers, codeRunning, codeVersions,
                 codeStartTimes, pendingResolvers, timers, timerCount, runs,
                 jobs, inbox, cellState, lastDispatched, lastArmed>>
  /\ UNCHANGED llmVars

\* iframe.onload (line 749): the srcdoc document has loaded, its listener
\* is registered, and the promise of the ensureSandbox call that created
\* the iframe resolves. An iframe taken out of the document before it
\* loaded never fires load.
IframeLoad(i) ==
  /\ CanStartTask
  /\ iframes[i].phase \in {"created", "listening"}
  /\ iframes' = [iframes EXCEPT ![i].phase = "loaded"]
  /\ runs' = [f \in DOMAIN runs |->
                IF runs[f].pc = "awaitLoad" /\ runs[f].iframe = i
                THEN [runs[f] EXCEPT !.pc = "ready"] ELSE runs[f]]
  /\ callerTask' = FALSE
  /\ lastOp' = Op("sandbox", "", "", 0)
  /\ UNCHANGED <<sandboxes, codeRunTimers, codeRunning, codeVersions,
                 codeStartTimes, pendingResolvers, timers, timerCount, jobs,
                 inbox, cellState, lastDispatched, lastArmed>>
  /\ UNCHANGED llmVars

----------------------------------------------------------------------------
\* scheduleCodeRun (lines 924-933).

scheduleCodeRun(c) ==
  /\ CanCall
  /\ timerCount < MaxTimers
  /\ LET prev == codeRunTimers[c]
         cleared == IF prev # 0 THEN ClearTimeout(timers, prev) ELSE timers
         timer == timerCount + 1
     IN /\ timers' = cleared \cup {[id |-> timer, cell |-> c]}
        /\ timerCount' = timer
        /\ codeRunTimers' = [codeRunTimers EXCEPT ![c] = timer]
        /\ lastArmed' = [lastArmed EXCEPT ![c] = timer]
        /\ lastOp' = Op("schedule", c, "", 0)
  /\ callerTask' = (ReadyRuns(runs) # {})
  /\ UNCHANGED <<sandboxes, codeRunning, codeVersions, codeStartTimes,
                 pendingResolvers, iframes, runs, jobs, inbox, cellState,
                 lastDispatched>>
  /\ UNCHANGED llmVars

----------------------------------------------------------------------------
\* runCodeCell up to its await (lines 941-962), entered with the timers and
\* the timer map as the caller left them.

runCodeCellFrom(ts, crt, c) ==
  LET prevTimer == IF c \in DOMAIN crt THEN crt[c] ELSE 0
      es == ensureSandbox(c)
  IN /\ timers' = IF prevTimer # 0 THEN ClearTimeout(ts, prevTimer) ELSE ts
     /\ codeRunTimers' = IF prevTimer # 0 THEN [crt EXCEPT ![c] = 0] ELSE crt
     /\ IF c \notin CodeCells
        THEN UNCHANGED <<sandboxes, iframes, runs>>     \* line 953
        ELSE /\ Len(runs) < MaxRuns
             /\ iframes' = es.iframes
             /\ sandboxes' = es.sandboxes
             /\ runs' = Append(runs,
                          [cell |-> c, iframe |-> es.iframe,
                           pc |-> IF es.resolved THEN "ready" ELSE "awaitLoad",
                           version |-> 0, outcome |-> NoOutcome])
     /\ UNCHANGED <<codeRunning, codeVersions, codeStartTimes, timerCount,
                    pendingResolvers, jobs, inbox, cellState, lastDispatched,
                    lastArmed>>
     /\ UNCHANGED llmVars

\* A caller calls runCodeCell(c). A call that returns at line 953 leaves no
\* trace in the history.
runCodeCell(c) ==
  /\ CanCall
  /\ runCodeCellFrom(timers, codeRunTimers, c)
  /\ callerTask' = (ReadyRuns(runs') # {})
  /\ lastOp' = IF c \in CodeCells THEN Op("run", c, "", 0) ELSE lastOp

\* The callback scheduleCodeRun armed (lines 928-931) runs.
TimerFired(t) ==
  /\ CanStartTask
  /\ t \in timers
  /\ runCodeCellFrom(timers \ {t}, [codeRunTimers EXCEPT ![t.cell] = 0], t.cell)
  /\ lastOp' = Op("timerFired", t.cell, "", t.id)
  /\ callerTask' = FALSE

\* runCodeCell after its await (lines 963-1006). `throws` is whether
\* postMessage throws. A message posted to a window whose listener is not
\* registered yet is lost.
runCodeCellResume(f, throws) ==
  /\ runs[f].pc = "ready"
  /\ LET c == runs[f].cell
         i == runs[f].iframe
         nextVersion == codeVersions[c] + 1
         hasWindow == Attached(i)    \* iframe.contentWindow is not null
         thrown == hasWindow /\ throws
         heard == hasWindow /\ ~throws /\ Listening(i)
     IN /\ throws => hasWindow
        /\ codeVersions' = [codeVersions EXCEPT ![c] = nextVersion]
        /\ codeStartTimes' = codeStartTimes \cup {c}
        /\ codeRunning' = IF thrown THEN codeRunning \ {c}
                          ELSE codeRunning \cup {c}
        /\ pendingResolvers' =
             [pendingResolvers EXCEPT ![c] =
                IF thrown THEN NoPending
                ELSE [resolve |-> f, version |-> nextVersion]]
        /\ runs' = [runs EXCEPT ![f] =
                      IF thrown
                      THEN [@ EXCEPT !.pc = "resolved", !.version = nextVersion,
                                     !.outcome = SendFailedOutcome]
                      ELSE [@ EXCEPT !.pc = "dispatched",
                                     !.version = nextVersion]]
        /\ jobs' = IF heard
                   THEN jobs \cup {[iframe |-> i, cellId |-> c,
                                    version |-> nextVersion, run |-> f]}
                   ELSE jobs
        /\ cellState' = IF thrown
                        THEN [cellState EXCEPT ![c].error = SendFailedOutcome.error]
                        ELSE cellState
        /\ lastDispatched' = IF hasWindow /\ ~throws
                             THEN [lastDispatched EXCEPT ![c] = f]
                             ELSE lastDispatched
        /\ lastOp' = Op("resume", c,
                        IF thrown THEN "threw"
                        ELSE IF ~hasWindow THEN "nowindow"
                        ELSE IF heard THEN "sent" ELSE "unheard",
                        f)
  /\ callerTask' = FALSE
  /\ UNCHANGED <<sandboxes, codeRunTimers, iframes, timers, timerCount, inbox,
                 lastArmed>>
  /\ UNCHANGED llmVars

----------------------------------------------------------------------------------------------------------------------------------------
\* Message events of the parent window.

Message(origin, type, cellId, version, source, run) ==
  [origin |-> origin, type |-> type, cellId |-> cellId, version |-> version,
   source |-> source, run |-> run]

\* The sandbox's listener finishes a code-exec request and replies (lines
\* 792-802) with the cellId and version it was sent. The reply is queued
\* for the parent window.
SandboxReply(j, type) ==
  /\ Attached(j.iframe)
  /\ jobs' = jobs \ {j}
  /\ inbox' = Append(inbox,
                Message("null", type, j.cellId, j.version, j.iframe, j.run))
  /\ lastOp' = Op("sandbox", "", "", 0)
  /\ UNCHANGED <<sandboxes, codeRunTimers, codeRunning, codeVersions,
                 codeStartTimes, pendingResolvers, iframes, timers, timerCount,
                 runs, cellState, callerTask, lastDispatched, lastArmed>>
  /\ UNCHANGED llmVars

\* What the code a request carries does (lines 792-801): the code of the
\* first call of runCodeCell returns or throws, the code of later calls
\* returns.
ReplyTypes(j) ==
  IF j.run = 1 THEN {"code-result", "code-error"} ELSE {"code-result"}

\* The code of a request is evaluated in the sandbox's global scope (line
\* 792), where `parent` and the window's message events are in reach: it
\* can post the reply to its request itself, which the listener then posts
\* again (lines 794-801).
SandboxRepliesTwice(j, type) ==
  /\ Attached(j.iframe)
  /\ jobs' = jobs \ {j}
  /\ inbox' = inbox
               \o << Message("null", type, j.cellId, j.version, j.iframe, j.run),
                     Message("null", type, j.cellId, j.version, j.iframe, j.run) >>
  /\ lastOp' = Op("sandbox", "", "", 0)
  /\ UNCHANGED <<sandboxes, codeRunTimers, codeRunning, codeVersions,
                 codeStartTimes, pendingResolvers, iframes, timers, timerCount,
                 runs, cellState, callerTask, lastDispatched, lastArmed>>
  /\ UNCHANGED llmVars

\* The cell's code is evaluated in the sandbox's global scope (line 792),
\* where `parent` is in reach: while it runs it can post a message of its
\* own making to the parent, naming another cell.
SandboxMessages ==
  {m \in {Message("null", "code-result", c, v, j.iframe, 0) :
            j \in jobs, c \in CodeCells, v \in 1..MaxRuns} :
     Attached(m.source) /\ iframes[m.source].cell # m.cellId}

\* Messages that reach the window from elsewhere: a window of another
\* origin, a same-origin message that is no code reply, and a code reply
\* without a cellId.
OtherMessages ==
  {Message("https://other.example", "code-result", c, 1, 0, 0) :
     c \in ScheduleInputs}
    \cup {Message("self", "ping", "", 0, 0, 0),
          Message("self", "code-result", "", 1, 0, 0)}

----------------------------------------------------------------------------
\* handleSandboxMessage (lines 818-917).

\* Line 824.
OriginAllowed(m) == m.origin = "null" \/ m.origin = "self"

\* Line 830.
IsCodeMessage(m) == m.type = "code-result" \/ m.type = "code-error"

\* Mutant of VersionCurrent: only a version above the counter is refused.
VersionCurrentOrOlder(cellId, version) ==
  /\ cellId \in DOMAIN codeVersions
  /\ codeVersions[cellId] # 0
  /\ version <= codeVersions[cellId]

\* Lines 841-846: the cell has a counter and the message carries its value.
VersionCurrent(cellId, version) ==
  /\ cellId \in DOMAIN codeVersions
  /\ codeVersions[cellId] # 0
  /\ version = codeVersions[cellId]

\* Why the handler returns early, or "accepted".
Verdict(m) ==
  IF ~OriginAllowed(m) THEN "origin"
  ELSE IF ~IsCodeMessage(m) THEN "type"
  ELSE IF m.cellId = "" THEN "nocell"
  ELSE IF ~VersionCurrent(m.cellId, m.version) THEN "stale"
  ELSE "accepted"

\* Lines 861-916: the cell as updateCells leaves it. The value the run
\* computed stands for itself; its serialization is not modelled.
ReplyCellState(cell, m, durationMs) ==
  IF m.type = "code-error"
  THEN [cell EXCEPT !.error = "Code execution failed.",
                    !.status = "error", !.durationMs = durationMs]
  ELSE [cell EXCEPT !.lastOutput = m.run, !.error = "", !.stale = FALSE,
                    !.status = "ok", !.durationMs = durationMs]

\* The handler, called with the event m.
handleSandboxMessage(m) ==
  LET c == m.cellId
      pending == IF c \in DOMAIN pendingResolvers
                 THEN pendingResolvers[c] ELSE NoPending
      resolves == pending.resolve # 0 /\ pending.version = m.version
  IN /\ IF Verdict(m) # "accepted"
        THEN UNCHANGED <<codeRunning, codeRunTimers, codeStartTimes,
                         pendingResolvers, runs, cellState>>
        ELSE /\ codeRunning' = codeRunning \ {c}
             /\ codeRunTimers' = [codeRunTimers EXCEPT ![c] = 0]
             /\ codeStartTimes' = codeStartTimes \ {c}
             /\ pendingResolvers' =
                  IF resolves THEN [pendingResolvers EXCEPT ![c] = NoPending]
                  ELSE pendingResolvers
             /\ runs' = IF resolves
                        THEN Resolve(runs, pending.resolve,
                                     [type |-> m.type, error |-> ""])
                        ELSE runs
             /\ cellState' =
                  [cellState EXCEPT ![c] =
                     ReplyCellState(@, m,
                       IF c \in codeStartTimes THEN "ms" ELSE "null")]
     /\ callerTask' = FALSE
     /\ UNCHANGED <<sandboxes, codeVersions, iframes, timers, timerCount, jobs,
                    lastDispatched, lastArmed>>
     /\ UNCHANGED llmVars

\* What the handler may write differs from what it was before the call.
HandlerChanged ==
  <<codeRunning', codeRunTimers', codeStartTimes', pendingResolvers', runs',
    cellState'>>
    # <<codeRunning, codeRunTimers, codeStartTimes, pendingResolvers, runs,
        cellState>>

\* A future of the message's cell and version has been resolved with a
\* reply (lines 855-858), so a reply with that cellId and version was
\* accepted.
AcceptedBefore(m) ==
  \E g \in DOMAIN runs :
    /\ runs[g].cell = m.cellId
    /\ runs[g].version = m.version
    /\ runs[g].pc = "resolved"
    /\ runs[g].outcome \notin {StoppedOutcome, SendFailedOutcome}

\* The event loop delivers the reply at the head of the queue.
ReplyDelivered ==
  /\ CanStartTask
  /\ inbox # <<>>
  /\ inbox' = Tail(inbox)
  /\ handleSandboxMessage(Head(inbox))
  /\ lastOp' = [Op("message", Head(inbox).cellId, Verdict(Head(inbox)),
                   Head(inbox).run)
                  EXCEPT !.changed = HandlerChanged,
                         !.again = AcceptedBefore(Head(inbox))]

\* A message of another sender is delivered. The handler reads nothing
\* about the sender but the origin, so the time such a message spends in
\* the queue is not modelled. The history records it when the handler
\* accepts it; a message the handler drops leaves no trace.
MessageDelivered(m) ==
  /\ CanStartTask
  /\ UNCHANGED inbox
  /\ handleSandboxMessage(m)
  /\ lastOp' = IF Verdict(m) = "accepted"
               THEN [Op("message", m.cellId, "accepted", 0)
                       EXCEPT !.changed = HandlerChanged,
                              !.again = AcceptedBefore(m)]
               ELSE lastOp

----------------
\* stopCode (lines 1022-1056).

stopCode(c) ==
  /\ CanCall
  /\ LET timer == codeRunTimers[c]
         iframe == sandboxes[c]
         pending == pendingResolvers[c]
     IN /\ timers' = IF timer # 0 THEN ClearTimeout(timers, timer) ELSE timers
        /\ codeRunTimers' = [codeRunTimers EXCEPT ![c] = 0]
        /\ iframes' = IF iframe # 0
                      THEN [iframes EXCEPT ![iframe].phase = "removed"]
                      ELSE iframes
        /\ jobs' = {j \in jobs : j.iframe # iframe}
        /\ sandboxes' = [sandboxes EXCEPT ![c] = 0]
        /\ codeRunning' = codeRunning \ {c}
        /\ codeStartTimes' = codeStartTimes \ {c}
        /\ pendingResolvers' = [pendingResolvers EXCEPT ![c] = NoPending]
        /\ runs' = IF pending.resolve # 0
                   THEN Resolve(runs, pending.resolve, StoppedOutcome)
                   ELSE runs
        /\ cellState' = [cellState EXCEPT ![c].status = "stopped"]
        /\ lastOp' = Op("stop", c, "", pending.resolve)
  /\ callerTask' = (ReadyRuns(runs) # {})
  /\ UNCHANGED <<codeVersions, timerCount, inbox, lastDispatched, lastArmed>>
  /\ UNCHANGED llmVars

----------------------------------------------------------------------------
\* stopAll (lines 1061-1067).

stopAll ==
  /\ CanCall
  /\ timers' = {t \in timers : \A c \in CodeCells : codeRunTimers[c] # t.id}
  /\ codeRunTimers' = [c \in CodeCells |-> 0]
  /\ codeRunning' = {}
  /\ codeVersions' = [c \in CodeCells |-> 0]
  /\ codeStartTimes' = {}
  /\ lastOp' = Op("stopAll", "", "", 0)
  /\ callerTask' = (ReadyRuns(runs) # {})
  /\ UNCHANGED <<sandboxes, pendingResolvers, iframes, timerCount, runs, jobs,
                 inbox, cellState, lastDispatched, lastArmed>>
  /\ UNCHANGED llmVars

----------------------------------------------------------------------------
\* LlmManager: strings, providers and models.
\*
\* A JavaScript string that the code takes apart (a model id, a model name,
\* a provider id) is a sequence of symbols: "/" and ":" are the separator
\* characters and every other symbol stands for a run of characters with no
\* separator in it. Strings that are only compared (a provider type, an API
\* key, a base URL) are atoms.

\* The provider types (line 144).
Kinds == {"openai", "claude", "openrouter", "custom"}

\* Model names as the providers list them.
Gpt4 == <<"gpt-4">>
OrGpt4 == <<"openai", "/", "gpt-4">>
FtGpt4 == <<"ft", ":", "gpt-4">>
ModelNames == {Gpt4, OrGpt4}

\* An entry of settings.providers.
Provider(id, kind, apiKey, baseUrl) ==
  [id |-> id, provider |-> kind, apiKey |-> apiKey, baseUrl |-> baseUrl]

\* `undefined` where a provider is looked up, `null` where a model is.
NoProvider == Provider(<<>>, "", "", "")
NoModel ==
  [id |-> <<>>, model |-> <<>>, providerId |-> <<>>, provider |-> "",
   apiKey |-> "", baseUrl |-> ""]

\* The providers a user configures.
POpenAI == Provider(<<"p1">>, "openai", "k1", "")
POpenAI2 == Provider(<<"p2">>, "openai", "k2", "https://proxy.example/v1")
PRouter == Provider(<<"p3">>, "openrouter", "k3", "")
PClaude == Provider(<<"p4">>, "claude", "k4", "")
PCustomBare == Provider(<<"p5">>, "custom", "", "")
PCustom == Provider(<<"p5">>, "custom", "k5", "https://local.example/v1")
ProviderIds == {<<"p1">>, <<"p2">>, <<"p3">>, <<"p4">>, <<"p5">>}

\* The provider lists the settings dialog passes to refreshModelCache.
ProviderLists ==
  {<<>>, <<POpenAI, PRouter>>, <<POpenAI, POpenAI2>>, <<PCustom, PClaude>>}

\* The model lists a provider's /models endpoint answers with.
Responses == {<<>>, <<Gpt4>>, <<OrGpt4>>}

\* The parsed content of localStorage: nothing, or the settings of an
\* earlier session: a custom provider that has no key and no base URL yet
\* with a model of it, and a model fetched with an earlier key of the
\* OpenAI provider.
Settings(ps, ms, ts) ==
  [providers |-> ps, cachedModels |-> ms, cacheTimestamp |-> ts]
NoSettings == Settings(<<>>, <<>>, 0)
StoredSettings ==
  {NoSettings,
   Settings(<<PCustomBare, POpenAI>>,
            <<[id |-> <<"Custom", "/", "gpt-4">>, model |-> Gpt4,
               providerId |-> <<"p5">>, provider |-> "custom",
               apiKey |-> "", baseUrl |-> ""],
              [id |-> <<"OpenAI", "/", "gpt-4">>, model |-> Gpt4,
               providerId |-> <<"p1">>, provider |-> "openai",
               apiKey |-> "k0", baseUrl |-> "https://api.openai.com/v1"]>>,
            0)}

\* a || b on strings.
OrElse(a, b) == IF a # "" THEN a ELSE b

\* Array.prototype.find: the first element passing the test, or `none`.
Find(s, Test(_), none) ==
  LET sel == SelectSeq(s, Test) IN IF sel = <<>> THEN none ELSE Head(sel)

\* String.prototype.includes / indexOf / lastIndexOf for one character.
Includes(s, ch) == \E i \in DOMAIN s : s[i] = ch
IndexOf(s, ch) ==
  CHOOSE i \in DOMAIN s : s[i] = ch /\ \A j \in 1..(i - 1) : s[j] # ch
LastIndexOf(s, ch) ==
  CHOOSE i \in DOMAIN s : s[i] = ch /\ \A j \in (i + 1)..Len(s) : s[j] # ch

\* String.prototype.toLowerCase.
LowerSymbol(x) ==
  CASE x = "OpenAI" -> "openai"
    [] x = "Anthropic" -> "anthropic"
    [] x = "Claude" -> "claude"
    [] x = "OpenRouter" -> "openrouter"
    [] x = "Custom" -> "custom"
    [] OTHER -> x
ToLowerCase(s) == [i \in DOMAIN s |-> LowerSymbol(s[i])]

\* Lines 110-115.
getProviderDefaultBaseUrl(provider) ==
  IF provider = "claude" THEN "https://api.anthropic.com/v1"
  ELSE IF provider = "openrouter" THEN "https://openrouter.ai/api/v1"
  ELSE IF provider = "custom" THEN ""
  ELSE "https://api.openai.com/v1"

\* Lines 122-127.
getProviderLabel(provider) ==
  IF provider = "claude" THEN "Anthropic"
  ELSE IF provider = "openrouter" THEN "OpenRouter"
  ELSE IF provider = "custom" THEN "Custom"
  ELSE "OpenAI"

\* Lines 148-151.
createStandardModelId(provider, modelName) ==
  <<getProviderLabel(provider), "/">> \o modelName

\* Lines 194-200.
getProviderFromLabel(label) ==
  LET lower == ToLowerCase(label)
  IN IF lower = <<"anthropic">> \/ lower = <<"claude">> THEN "claude"
     ELSE IF lower = <<"openrouter">> THEN "openrouter"
     ELSE IF lower = <<"custom">> THEN "custom"
     ELSE "openai"

\* The result of parseModelId; ok is FALSE for null.
Parsed(ok, provider, providerLabel, model, legacyProviderId) ==
  [ok |-> ok, provider |-> provider, providerLabel |-> providerLabel,
   model |-> model, legacyProviderId |-> legacyProviderId]
NoParse == Parsed(FALSE, "", <<>>, <<>>, <<>>)

\* Mutant of SeparatorIndex: the id is split at its last "/".
SeparatorIndexLast(id) == LastIndexOf(id, "/")

\* Line 164: the id is split at its first "/".
SeparatorIndex(id) == IndexOf(id, "/")

\* Lines 159-187.
parseModelId(id, provs) ==
  IF id = <<>> THEN NoParse
  ELSE IF Includes(id, "/")
  THEN LET slashIndex == SeparatorIndex(id)
           providerLabel == SubSeq(id, 1, slashIndex - 1)
           modelName == SubSeq(id, slashIndex + 1, Len(id))
       IN Parsed(TRUE, getProviderFromLabel(providerLabel), providerLabel,
                 modelName, <<>>)
  ELSE IF Includes(id, ":")
  THEN LET colonIndex == IndexOf(id, ":")
           providerId == SubSeq(id, 1, colonIndex - 1)
           modelName == SubSeq(id, colonIndex + 1, Len(id))
           providerObj == Find(provs, LAMBDA p : p.id = providerId, NoProvider)
       IN IF providerObj # NoProvider
          THEN Parsed(TRUE, providerObj.provider,
                      <<getProviderLabel(providerObj.provider)>>, modelName,
                      providerId)
          ELSE Parsed(TRUE, "openai", <<"OpenAI">>, modelName, providerId)
  ELSE NoParse

\* Lines 208-214: the segment after the last "/".
extractBaseModelName(modelName) ==
  IF modelName = <<>> THEN <<>>
  ELSE IF Includes(modelName, "/")
  THEN SubSeq(modelName, LastIndexOf(modelName, "/") + 1, Len(modelName))
  ELSE modelName

\* Mutant of providerHasModels: the fallback is never held back.
providerNeverHasModels(models, provider) == FALSE

\* Line 252: some cached model is of the provider type.
providerHasModels(models, provider) ==
  \E i \in DOMAIN models : models[i].provider = provider

\* Mutant of getModelById: the provider type and model name are tried
\* before the legacy provider id.
getModelByIdTypeFirst(id, models, provs) ==
  LET direct == Find(models, LAMBDA m : m.id = id, NoModel)
      parsed == parseModelId(id, provs)
      byLegacy ==
        Find(models,
             LAMBDA m : m.providerId = parsed.legacyProviderId
                          /\ m.model = parsed.model,
             NoModel)
      sameProvider ==
        Find(models,
             LAMBDA m : m.provider = parsed.provider /\ m.model = parsed.model,
             NoModel)
      baseModel == extractBaseModelName(parsed.model)
      anyProvider ==
        Find(models, LAMBDA m : extractBaseModelName(m.model) = baseModel,
             NoModel)
  IN IF id = <<>> THEN NoModel
     ELSE IF direct # NoModel THEN direct
     ELSE IF ~parsed.ok THEN NoModel
     ELSE IF sameProvider # NoModel THEN sameProvider
     ELSE IF parsed.legacyProviderId # <<>> /\ byLegacy # NoModel THEN byLegacy
     ELSE IF providerHasModels(models, parsed.provider) THEN NoModel
     ELSE anyProvider

\* Lines 224-269.
getModelById(id, models, provs) ==
  LET direct == Find(models, LAMBDA m : m.id = id, NoModel)
      parsed == parseModelId(id, provs)
      byLegacy ==
        Find(models,
             LAMBDA m : m.providerId = parsed.legacyProviderId
                          /\ m.model = parsed.model,
             NoModel)
      sameProvider ==
        Find(models,
             LAMBDA m : m.provider = parsed.provider /\ m.model = parsed.model,
             NoModel)
      baseModel == extractBaseModelName(parsed.model)
      anyProvider ==
        Find(models, LAMBDA m : extractBaseModelName(m.model) = baseModel,
             NoModel)
  IN IF id = <<>> THEN NoModel
     ELSE IF direct # NoModel THEN direct
     ELSE IF ~parsed.ok THEN NoModel
     ELSE IF parsed.legacyProviderId # <<>> /\ byLegacy # NoModel THEN byLegacy
     ELSE IF sameProvider # NoModel THEN sameProvider
     ELSE IF providerHasModels(models, parsed.provider) THEN NoModel
     ELSE anyProvider

\* Mutant of resolveModelId: the canonical id is always the id passed in.
resolveModelIdKeepingId(id, models, provs) ==
  [model |-> getModelById(id, models, provs), canonicalId |-> id]

\* Mutant of resolveModelId: an id that resolves to no model is given the
\* standard id of the default provider type.
resolveModelIdDefaulting(id, models, provs) ==
  LET model == getModelById(id, models, provs)
  IN IF id = <<>> THEN [model |-> NoModel, canonicalId |-> <<>>]
     ELSE IF model # NoModel
     THEN [model |-> model,
           canonicalId |-> createStandardModelId(model.provider, model.model)]
     ELSE [model |-> NoModel,
           canonicalId |-> createStandardModelId("openai", id)]

\* Lines 299-310.
resolveModelId(id, models, provs) ==
  LET model == getModelById(id, models, provs)
  IN IF id = <<>> THEN [model |-> NoModel, canonicalId |-> <<>>]
     ELSE IF model # NoModel
     THEN [model |-> model,
           canonicalId |-> createStandardModelId(model.provider, model.model)]
     ELSE [model |-> NoModel, canonicalId |-> id]

\* The provider lines 335-337 and lines 47-49 pick for a model.
ProviderOf(m, provs) ==
  LET byId == Find(provs, LAMBDA p : p.id = m.providerId, NoProvider)
  IN IF byId # NoProvider THEN byId
     ELSE Find(provs, LAMBDA p : p.provider = m.provider, NoProvider)

\* Mutant of getModelWithProvider: the provider's key and base URL replace
\* the model's own.
getModelWithProviderOverwriting(id, models, provs) ==
  LET model == getModelById(id, models, provs)
      provider == ProviderOf(model, provs)
  IN IF model = NoModel THEN NoModel
     ELSE [model EXCEPT
             !.apiKey = OrElse(provider.apiKey, model.apiKey),
             !.baseUrl = OrElse(provider.baseUrl, model.baseUrl)]

\* Lines 329-347.
getModelWithProvider(id, models, provs) ==
  LET model == getModelById(id, models, provs)
      provider == ProviderOf(model, provs)
      providerBase ==
        OrElse(provider.baseUrl,
               getProviderDefaultBaseUrl(OrElse(provider.provider,
                                                model.provider)))
  IN IF model = NoModel THEN NoModel
     ELSE [model EXCEPT
             !.provider = OrElse(provider.provider, model.provider),
             !.apiKey = OrElse(model.apiKey, provider.apiKey),
             !.baseUrl = OrElse(model.baseUrl, providerBase)]

\* Lines 30-92 for settings without the legacy `models` list: the cached
\* models are completed from the providers stored with them.
loadSettings(parsed) ==
  LET normalized(m) ==
        LET provider == ProviderOf(m, parsed.providers)
            providerName ==
              OrElse(provider.provider, OrElse(m.provider, "openai"))
        IN [m EXCEPT
              !.provider = providerName,
              !.providerId = IF m.providerId # <<>> THEN m.providerId
                             ELSE provider.id,
              !.apiKey = OrElse(m.apiKey, provider.apiKey),
              !.baseUrl = OrElse(m.baseUrl,
                                 OrElse(provider.baseUrl,
                                        getProviderDefaultBaseUrl(providerName)))]
  IN Settings(parsed.providers,
              [i \in DOMAIN parsed.cachedModels |->
                 normalized(parsed.cachedModels[i])],
              parsed.cacheTimestamp)

\* Lines 403-415: the models of one provider as the refresh stamps them.
Stamped(provider, models) ==
  [i \in DOMAIN models |->
     [id |-> createStandardModelId(provider.provider, models[i]),
      model |-> models[i],
      providerId |-> provider.id,
      provider |-> provider.provider,
      apiKey |-> provider.apiKey,
      baseUrl |-> OrElse(provider.baseUrl,
                         getProviderDefaultBaseUrl(provider.provider))]]

----------------------------------------------------------------------------
\* LlmManager: the constructor, refreshModelCache and the calls of the
\* lookup functions.

\* What updateModelCacheStatus shows: the message and its type.
Status(text, type) == [text |-> text, type |-> type]
NoStatus == Status("", "")

\* constructor (lines 19-23) with `stored` in localStorage.
LlmInit(stored) ==
  LET settings == loadSettings(stored)
  IN /\ storage = stored
     /\ providers = settings.providers
     /\ cachedModels = settings.cachedModels
     /\ cacheTimestamp = settings.cacheTimestamp
     /\ refreshModelsInFlight = FALSE
     /\ modelCacheStatus = NoStatus
     /\ refreshes = <<>>
     /\ refreshCount = 0
     /\ overrideGiven = FALSE
     /\ listCalls = <<>>
     /\ llmOp = [op |-> "init"]

\* Mutant of AlreadyRefreshing: the flag is not looked at.
NeverRefreshing == FALSE

\* Line 388.
AlreadyRefreshing == refreshModelsInFlight

\* The loops of refreshModelCache suspended at the await of line 402.
ActiveRefreshes(rs) == {r \in DOMAIN rs : rs[r].pc = "fetching"}

\* Mutant of RefreshStatus: any error makes the refresh a failure.
RefreshStatusFailing(errors, collected) ==
  IF errors # 0 THEN Status("could-not-refresh", "error")
  ELSE Status("fetched", "success")

\* Mutant of RefreshStatus: a refresh that collected models is a success.
RefreshStatusByModels(errors, collected) ==
  IF collected # <<>> THEN Status("fetched", "success")
  ELSE IF errors # 0 THEN Status("could-not-refresh", "error")
  ELSE Status("fetched", "success")

\* Lines 426-441.
RefreshStatus(errors, collected) ==
  IF errors # 0 /\ collected # <<>> THEN Status("fetched-with-errors", "warn")
  ELSE IF errors # 0 THEN Status("could-not-refresh", "error")
  ELSE Status("fetched", "success")

\* Mutant of refreshModelCache: without providers the catalog is cleared.
refreshModelCacheClearing(given, list) ==
  LET current == IF given THEN list ELSE providers
      loop == [pc |-> "fetching", providers |-> current, i |-> 1,
               collected |-> <<>>, errors |-> 0, responses |-> <<>>]
      fresh == ActiveRefreshes(refreshes) = {}
      noted == IF fresh THEN <<>> ELSE listCalls
  IN /\ refreshCount < MaxRefreshes
     /\ ~given => list = <<>>
     /\ refreshCount' = refreshCount + 1
     /\ overrideGiven' = (given /\ list # <<>>)
     /\ providers' = current
     /\ storage' = IF given
                   THEN Settings(current, cachedModels, cacheTimestamp)
                   ELSE storage
     /\ IF AlreadyRefreshing
        THEN /\ llmOp' = [op |-> "refreshModelCache", result |-> "ignored"]
             /\ UNCHANGED <<refreshModelsInFlight, modelCacheStatus,
                            refreshes, listCalls, cachedModels,
                            cacheTimestamp>>
        ELSE IF current = <<>>
        THEN /\ modelCacheStatus' = Status("add-provider", "warn")
             /\ llmOp' = [op |-> "refreshModelCache", result |-> "unconfigured"]
             /\ UNCHANGED <<refreshModelsInFlight, refreshes, listCalls>>
             /\ cachedModels' = <<>>
             /\ UNCHANGED cacheTimestamp
        ELSE /\ refreshModelsInFlight' = TRUE
             /\ modelCacheStatus' = Status("refreshing", "info")
             /\ refreshes' = IF fresh THEN <<loop>> ELSE Append(refreshes, loop)
             /\ listCalls' = Append(noted, current[1].id)
             /\ llmOp' = [op |-> "refreshModelCache", result |-> "started"]
             /\ UNCHANGED <<cachedModels, cacheTimestamp>>
     /\ UNCHANGED codeVars

\* refreshModelCache up to its first await (lines 382-402). `given` is
\* whether providersFromDialog was passed; an empty list passed is truthy.
\* The call of fetchModelsForProvider for the first provider is noted; the
\* notes start again when no earlier loop is still running.
refreshModelCache(given, list) ==
  LET current == IF given THEN list ELSE providers
      loop == [pc |-> "fetching", providers |-> current, i |-> 1,
               collected |-> <<>>, errors |-> 0, responses |-> <<>>]
      fresh == ActiveRefreshes(refreshes) = {}
      noted == IF fresh THEN <<>> ELSE listCalls
  IN /\ refreshCount < MaxRefreshes
     /\ ~given => list = <<>>
     /\ refreshCount' = refreshCount + 1
     /\ overrideGiven' = (given /\ list # <<>>)
     /\ providers' = current
     /\ storage' = IF given
                   THEN Settings(current, cachedModels, cacheTimestamp)
                   ELSE storage
     /\ IF AlreadyRefreshing
        THEN /\ llmOp' = [op |-> "refreshModelCache", result |-> "ignored"]
             /\ UNCHANGED <<refreshModelsInFlight, modelCacheStatus,
                            refreshes, listCalls>>
        ELSE IF current = <<>>
        THEN /\ modelCacheStatus' = Status("add-provider", "warn")
             /\ llmOp' = [op |-> "refreshModelCache", result |-> "unconfigured"]
             /\ UNCHANGED <<refreshModelsInFlight, refreshes, listCalls>>
        ELSE /\ refreshModelsInFlight' = TRUE
             /\ modelCacheStatus' = Status("refreshing", "info")
             /\ refreshes' = IF fresh THEN <<loop>> ELSE Append(refreshes, loop)
             /\ listCalls' = Append(noted, current[1].id)
             /\ llmOp' = [op |-> "refreshModelCache", result |-> "started"]
     /\ UNCHANGED <<cachedModels, cacheTimestamp>>
     /\ UNCHANGED codeVars

\* Mutant of fetchModelsSettled: the models of each provider are put into
\* the catalog as they arrive.
fetchModelsSettledMerging(r, ok, models) ==
  /\ r \in DOMAIN refreshes
  /\ refreshes[r].pc = "fetching"
  /\ LET loop == refreshes[r]
         provider == loop.providers[loop.i]
         collected == IF ok THEN loop.collected \o Stamped(provider, models)
                      ELSE loop.collected
         errors == IF ok THEN loop.errors ELSE loop.errors + 1
         after == [loop EXCEPT !.collected = collected, !.errors = errors,
                               !.responses =
                                  Append(@, [ok |-> ok, models |-> models])]
     IN /\ ok => provider.apiKey # ""
        /\ ~ok => models = <<>>
        /\ IF loop.i < Len(loop.providers)
           THEN /\ refreshes' = [refreshes EXCEPT ![r] =
                                   [after EXCEPT !.i = loop.i + 1]]
                /\ listCalls' = Append(listCalls, loop.providers[loop.i + 1].id)
                /\ llmOp' = [op |-> "fetchModelsSettled", result |-> "next"]
                /\ cachedModels' = collected
                /\ UNCHANGED <<storage, cacheTimestamp,
                               refreshModelsInFlight, modelCacheStatus>>
           ELSE /\ refreshes' = [refreshes EXCEPT ![r] =
                                   [after EXCEPT !.pc = "done"]]
                /\ cachedModels' = collected
                /\ cacheTimestamp' = cacheTimestamp + 1
                /\ storage' = Settings(providers, collected, cacheTimestamp + 1)
                /\ modelCacheStatus' = RefreshStatus(errors, collected)
                /\ refreshModelsInFlight' = FALSE
                /\ llmOp' = [op |-> "fetchModelsSettled", result |-> "completed",
                             loop |-> r]
                /\ UNCHANGED listCalls
  /\ UNCHANGED <<providers, refreshCount, overrideGiven>>
  /\ UNCHANGED codeVars

\* Mutant of fetchModelsSettled: a refresh that collected nothing and had
\* errors returns after its report, before the flag is cleared.
fetchModelsSettledReturningEarly(r, ok, models) ==
  /\ r \in DOMAIN refreshes
  /\ refreshes[r].pc = "fetching"
  /\ LET loop == refreshes[r]
         provider == loop.providers[loop.i]
         collected == IF ok THEN loop.collected \o Stamped(provider, models)
                      ELSE loop.collected
         errors == IF ok THEN loop.errors ELSE loop.errors + 1
         after == [loop EXCEPT !.collected = collected, !.errors = errors,
                               !.responses =
                                  Append(@, [ok |-> ok, models |-> models])]
     IN /\ ok => provider.apiKey # ""
        /\ ~ok => models = <<>>
        /\ IF loop.i < Len(loop.providers)
           THEN /\ refreshes' = [refreshes EXCEPT ![r] =
                                   [after EXCEPT !.i = loop.i + 1]]
                /\ listCalls' = Append(listCalls, loop.providers[loop.i + 1].id)
                /\ llmOp' = [op |-> "fetchModelsSettled", result |-> "next"]
                /\ UNCHANGED <<storage, cachedModels, cacheTimestamp,
                               refreshModelsInFlight, modelCacheStatus>>
           ELSE /\ refreshes' = [refreshes EXCEPT ![r] =
                                   [after EXCEPT !.pc = "done"]]
                /\ cachedModels' = collected
                /\ cacheTimestamp' = cacheTimestamp + 1
                /\ storage' = Settings(providers, collected, cacheTimestamp + 1)
                /\ modelCacheStatus' = RefreshStatus(errors, collected)
                /\ refreshModelsInFlight' = (errors # 0 /\ collected = <<>>)
                /\ llmOp' = [op |-> "fetchModelsSettled", result |-> "completed",
                             loop |-> r]
                /\ UNCHANGED listCalls
  /\ UNCHANGED <<providers, refreshCount, overrideGiven>>
  /\ UNCHANGED codeVars

\* The call of fetchModelsForProvider that loop r awaits settles: with the
\* models the provider listed, or with an error (always so without an API
\* key, line 458). The loop goes on to the next provider (lines 400-420)
\* or, after the last one, replaces the cache and reports (lines 422-443).
fetchModelsSettled(r, ok, models) ==
  /\ r \in DOMAIN refreshes
  /\ refreshes[r].pc = "fetching"
  /\ LET loop == refreshes[r]
         provider == loop.providers[loop.i]
         collected == IF ok THEN loop.collected \o Stamped(provider, models)
                      ELSE loop.collected
         errors == IF ok THEN loop.errors ELSE loop.errors + 1
         after == [loop EXCEPT !.collected = collected, !.errors = errors,
                               !.responses =
                                  Append(@, [ok |-> ok, models |-> models])]
     IN /\ ok => provider.apiKey # ""
        /\ ~ok => models = <<>>
        /\ IF loop.i < Len(loop.providers)
           THEN /\ refreshes' = [refreshes EXCEPT ![r] =
                                   [after EXCEPT !.i = loop.i + 1]]
                /\ listCalls' = Append(listCalls, loop.providers[loop.i + 1].id)
                /\ llmOp' = [op |-> "fetchModelsSettled", result |-> "next"]
                /\ UNCHANGED <<storage, cachedModels, cacheTimestamp,
                               refreshModelsInFlight, modelCacheStatus>>
           ELSE /\ refreshes' = [refreshes EXCEPT ![r] =
                                   [after EXCEPT !.pc = "done"]]
                /\ cachedModels' = collected
                /\ cacheTimestamp' = cacheTimestamp + 1
                /\ storage' = Settings(providers, collected, cacheTimestamp + 1)
                /\ modelCacheStatus' = RefreshStatus(errors, collected)
                /\ refreshModelsInFlight' = FALSE
                /\ llmOp' = [op |-> "fetchModelsSettled", result |-> "completed",
                             loop |-> r]
                /\ UNCHANGED listCalls
  /\ UNCHANGED <<providers, refreshCount, overrideGiven>>
  /\ UNCHANGED codeVars

\* The ids callers look up: the standard id of every provider type and
\* model name, ids in the legacy provider_id:model form, and a bare name.
LookupIds ==
  {createStandardModelId(k, n) : k \in Kinds, n \in ModelNames}
    \cup {<<"p2", ":", "gpt-4">>, <<"zz", ":", "gpt-4">>, Gpt4}

\* The ids callers parse: those, and standard ids of a name with a colon.
ParseIds == LookupIds \cup {createStandardModelId(k, FtGpt4) : k \in Kinds}

\* The ids of the models that are hydrated and that completions are asked
\* of: one of each provider type.
CompletionIds == {createStandardModelId(k, Gpt4) : k \in Kinds}

\* A caller calls resolveModelId(id).
resolveModelIdCalled(id) ==
  /\ llmOp' = [op |-> "resolveModelId", id |-> id,
               result |-> resolveModelId(id, cachedModels, providers)]
  /\ UNCHANGED <<storage, providers, cachedModels, cacheTimestamp,
                 refreshModelsInFlight, modelCacheStatus, refreshes,
                 refreshCount, overrideGiven, listCalls>>
  /\ UNCHANGED codeVars

\* A caller calls getModelWithProvider(id).
getModelWithProviderCalled(id) ==
  /\ llmOp' = [op |-> "getModelWithProvider", id |-> id,
               result |-> getModelWithProvider(id, cachedModels, providers)]
  /\ UNCHANGED <<storage, providers, cachedModels, cacheTimestamp,
                 refreshModelsInFlight, modelCacheStatus, refreshes,
                 refreshCount, overrideGiven, listCalls>>
  /\ UNCHANGED codeVars

\* A caller calls parseModelId(id).
parseModelIdCalled(id) ==
  /\ llmOp' = [op |-> "parseModelId", id |-> id,
               result |-> parseModelId(id, providers)]
  /\ UNCHANGED <<storage, providers, cachedModels, cacheTimestamp,
                 refreshModelsInFlight, modelCacheStatus, refreshes,
                 refreshCount, overrideGiven, listCalls>>
  /\ UNCHANGED codeVars

\* Lines 525-534: the function callLLM hands the model to.
CompletionCall(model) ==
  IF model.provider = "claude" THEN "callClaude"
  ELSE IF model.provider = "openrouter" THEN "callOpenRouter"
  ELSE "callOpenAI"

\* callLLM(model, ...) (lines 525-710) for a hydrated model: callOpenAI,
\* callClaude and callOpenRouter each build the request with model.apiKey
\* in a header as it is and await one fetch; a response that is not ok is
\* thrown as an error. `resOk` is res.ok.
callLLM(model, resOk) ==
  /\ model # NoModel
  /\ llmOp' = [op |-> "callLLM", model |-> model, via |-> CompletionCall(model),
               credential |-> model.apiKey, fetches |-> 1,
               outcome |-> IF resOk THEN "response" ELSE "http-error"]
  /\ UNCHANGED <<storage, providers, cachedModels, cacheTimestamp,
                 refreshModelsInFlight, modelCacheStatus, refreshes,
                 refreshCount, overrideGiven, listCalls>>
  /\ UNCHANGED codeVars

----------------------------------------------------------------------------
\* The two managers as constructed with nothing in localStorage.
Init == CodeCellInit /\ LlmInit(NoSettings)

\* The same with the settings of an earlier session in localStorage.
InitStored == CodeCellInit /\ \E stored \in StoredSettings : LlmInit(stored)

----------------------------------------------------------------------------
\* Every message a sender other than the named cell's own sandbox can post.
ForeignMessages == SandboxMessages \cup OtherMessages

\* The manager with the callers working on cell "a" (and the non-code cell),
\* and no sender of messages but the cell's own sandbox.
NextOneCell ==
  \/ \E c \in ScheduleInputs : scheduleCodeRun(c)
  \/ \E c \in Cells \ BesideCells : runCodeCell(c)
  \/ \E t \in timers : TimerFired(t)
  \/ \E i \in DOMAIN iframes : SandboxScriptRan(i)
  \/ \E i \in DOMAIN iframes : IframeLoad(i)
  \/ \E f \in DOMAIN runs, throws \in BOOLEAN : runCodeCellResume(f, throws)
  \/ \E j \in jobs : \E type \in ReplyTypes(j) : SandboxReply(j, type)
  \/ ReplyDelivered
  \/ \E c \in StopInputs : stopCode(c)
  \/ stopAll

\* The same with cell "b" run beside it, whose sandbox can post messages
\* naming cell "a", and with the messages of other windows.
Next ==
  \/ NextOneCell
  \/ \E c \in BesideCells : runCodeCell(c)
  \/ \E m \in ForeignMessages : MessageDelivered(m)

Spec == Init /\ [][NextOneCell]_vars

SpecTwoCells == Init /\ [][Next]_vars

\* The manager with code in the sandbox that posts its reply itself too.
NextDuplicates ==
  \/ NextOneCell
  \/ \E j \in jobs : \E type \in ReplyTypes(j) : SandboxRepliesTwice(j, type)

SpecDuplicates == Init /\ [][NextDuplicates]_vars

\* LlmManager with its callers and the providers' answers.
NextLlm ==
  \/ \E given \in BOOLEAN, list \in ProviderLists : refreshModelCache(given, list)
  \/ \E r \in DOMAIN refreshes, ok \in BOOLEAN, models \in Responses :
       fetchModelsSettled(r, ok, models)
  \/ \E id \in LookupIds : resolveModelIdCalled(id)
  \/ \E id \in CompletionIds : getModelWithProviderCalled(id)
  \/ \E id \in ParseIds : parseModelIdCalled(id)
  \/ \E id \in CompletionIds, resOk \in BOOLEAN :
       callLLM(getModelWithProvider(id, cachedModels, providers), resOk)

SpecLlm == InitStored /\ [][NextLlm]_vars

\* Every call of fetchModelsForProvider that a refresh awaits settles: the
\* fetch of lines 466, 486 and 502 resolves or rejects, and the continuation
\* of the await of line 402 is then run by the event loop.
CallsSettle ==
  WF_vars(\E r \in DOMAIN refreshes, ok \in BOOLEAN, models \in Responses :
            fetchModelsSettled(r, ok, models))

\* refreshModelCache and the providers' answers alone: the lookup functions
\* and callLLM write nothing a refresh reads (they assign no field of the
\* manager), so they are left out where only the refresh is observed.
NextRefresh ==
  \/ \E given \in BOOLEAN, list \in ProviderLists : refreshModelCache(given, list)
  \/ \E r \in DOMAIN refreshes, ok \in BOOLEAN, models \in Responses :
       fetchModelsSettled(r, ok, models)

SpecRefreshLive == InitStored /\ [][NextRefresh]_vars /\ CallsSettle

----------------------------------------------------------------------------
\* Properties.

LiveIframes(c) ==
  {i \in DOMAIN iframes : Attached(i) /\ iframes[i].cell = c}

\* C1: a delivered reply whose generation is not the cell's current counter
\* at receipt (or whose cell has no counter) is dropped: the handler leaves
\* the running set, the timers, the start times, the pending futures, the
\* runs' futures and the cell state as they were. (The handler does not
\* write the counter, and a run's reply carries the run's generation.)
C1_StaleReplyDropped ==
  (lastOp.op = "message" /\ lastOp.n # 0
     /\ runs[lastOp.n].version # codeVersions[lastOp.cell])
    => ~lastOp.changed

\* A reply of run N was dropped after a later generation was given out.
C1_Witness ==
  /\ lastOp.op = "message" /\ lastOp.result = "stale" /\ lastOp.n # 0
  /\ runs[lastOp.n].version # 0
  /\ runs[lastOp.n].version < codeVersions[lastOp.cell]
  /\ runs[lastOp.n].pc = "dispatched"

\* C2: a reply of a sandbox that is accepted answers the job request
\* dispatched last for its cell, never an earlier one.
C2_AcceptedReplyAnswersLatestRun ==
  (lastOp.op = "message" /\ lastOp.result = "accepted" /\ lastOp.n # 0)
    => lastOp.n = lastDispatched[lastOp.cell]

\* C3: no two runs of a cell are given the same generation.
C3_GenerationsNeverRepeat ==
  \A f, g \in DOMAIN runs :
    (f # g /\ runs[f].cell = runs[g].cell /\ runs[f].version # 0)
      => runs[f].version # runs[g].version

\* Nothing is in flight: no request executing, no reply queued, no
\* continuation or load outstanding, no timer armed.
Settled ==
  /\ jobs = {} /\ inbox = <<>> /\ timers = {}
  /\ \A f \in DOMAIN runs : runs[f].pc \in {"dispatched", "resolved"}

\* C4: a future superseded by a later run of its cell does not stay
\* pending: once nothing is in flight (and no postMessage has thrown), every
\* unresolved future of a dispatched run is the one its cell holds the
\* resolver of.
C4_SupersededFutureResolved ==
  (Settled /\ \A f \in DOMAIN runs : runs[f].outcome # SendFailedOutcome)
    => \A f \in DOMAIN runs :
         runs[f].pc = "dispatched" => pendingResolvers[runs[f].cell].resolve = f

\* C5: stopCode on a cell with a pending future resolves it within the
\* call, removes the pending entry and takes the cell out of the running set.
C5_StopResolvesPending ==
  (lastOp.op = "stop" /\ lastOp.n # 0)
    => /\ runs[lastOp.n].pc = "resolved"
       /\ pendingResolvers[lastOp.cell] = NoPending
       /\ lastOp.cell \notin codeRunning

\* stopCode has just resolved the pending future of an in-flight run.
C5_Witness ==
  /\ lastOp.op = "stop" /\ lastOp.n # 0
  /\ runs[lastOp.n].outcome = StoppedOutcome

\* C6: after stopAll every cell is as stopCode leaves it: no timer, no
\* sandbox, not running, no pending future.
C6_StopAllStopsEveryCell ==
  lastOp.op = "stopAll"
    => \A c \in CodeCells :
         /\ codeRunTimers[c] = 0
         /\ sandboxes[c] = 0 /\ LiveIframes(c) = {}
         /\ c \notin codeRunning
         /\ pendingResolvers[c] = NoPending

\* C7: a cell has at most one live iframe, and runs of a cell whose
\* iframes are both live were given the same iframe.
C7_OneLiveSandboxPerCell ==
  /\ \A c \in CodeCells : Cardinality(LiveIframes(c)) <= 1
  /\ \A f, g \in DOMAIN runs :
       (runs[f].cell = runs[g].cell
          /\ Attached(runs[f].iframe) /\ Attached(runs[g].iframe))
        => runs[f].iframe = runs[g].iframe

\* ensureSandbox was called a second time for a cell before the iframe of
\* the first call had loaded, and returned that iframe.
C7_Witness ==
  \E f, g \in DOMAIN runs :
    /\ f < g /\ runs[f].cell = runs[g].cell
    /\ runs[f].pc = "awaitLoad"
    /\ runs[g].iframe = runs[f].iframe
    /\ iframes[runs[f].iframe].phase \in {"created", "listening"}

\* C8: the timer that fires for a cell is the one its last scheduleCodeRun
\* call armed.
C8_OnlyLastScheduledTimerFires ==
  lastOp.op = "timerFired" => lastOp.n = lastArmed[lastOp.cell]

\* C9: when the code-exec request cannot be posted (postMessage throws, or
\* the iframe has no contentWindow), the future is resolved with an error
\* outcome and the cell is not left running.
C9_DispatchFailureResolves ==
  (lastOp.op = "resume" /\ lastOp.result \in {"threw", "nowindow"})
    => /\ runs[lastOp.n].pc = "resolved"
       /\ runs[lastOp.n].outcome.type = "code-error"
       /\ lastOp.cell \notin codeRunning

\* C10: a message that names a running cell with a pending future and was
\* not sent by the iframe bound to that cell changes nothing of the cell's
\* running state, pending future or cell state.
C10_OnlyOwnSandboxAccepted ==
  [][\A m \in ForeignMessages :
       (MessageDelivered(m) /\ m.cellId \in codeRunning
          /\ pendingResolvers[m.cellId] # NoPending
          /\ m.source # sandboxes[m.cellId])
        => UNCHANGED <<codeRunning, pendingResolvers, runs, cellState>>]_vars

\* C17: the outcome stopCode resolves a pending future with is a "stopped"
\* outcome of its own: its type is not the type of the outcome of an
\* execution error (the sandbox's "code-error" reply) nor of a dispatch
\* failure, and the cell's recorded run status is "stopped".
C17_StoppedOutcomeDistinct ==
  (lastOp.op = "stop" /\ lastOp.n # 0)
    => /\ runs[lastOp.n].outcome.type \notin {"code-error", SendFailedOutcome.type}
       /\ cellState[lastOp.cell].status = "stopped"

\* C20: a reply of the run that stopCode resolved, delivered while no
\* later run of the cell has been dispatched, is not accepted: it changes
\* neither the manager's bookkeeping nor the cell's output, error or status.
C20_NoReplyOfStoppedRunAccepted ==
  (lastOp.op = "message" /\ lastOp.n # 0
     /\ runs[lastOp.n].outcome = StoppedOutcome
     /\ lastDispatched[lastOp.cell] = lastOp.n)
    => ~lastOp.changed

----------------------------------------------------------------------------
\* Whether the catalog has an entry for `id` by exact id, by legacy
\* provider id and model name, or by provider type and model name.
MatchedByTier(id, models, provs) ==
  LET parsed == parseModelId(id, provs)
  IN \E i \in DOMAIN models :
       \/ models[i].id = id
       \/ /\ parsed.legacyProviderId # <<>>
          /\ models[i].providerId = parsed.legacyProviderId
          /\ models[i].model = parsed.model
       \/ /\ models[i].provider = parsed.provider
          /\ models[i].model = parsed.model

\* The positions of the catalog entries with the base model name of `id`.
BaseMatches(id, models, provs) ==
  {i \in DOMAIN models :
     extractBaseModelName(models[i].model)
       = extractBaseModelName(parseModelId(id, provs).model)}

\* The positions of the catalog entries of the provider type of `id`.
KindEntries(id, models, provs) ==
  {i \in DOMAIN models : models[i].provider = parseModelId(id, provs).provider}

Min(S) == CHOOSE i \in S : \A j \in S : i <= j

\* C11: an id that parses and matches no catalog entry by exact id, legacy
\* provider id or same-type model name resolves to the first entry with
\* its base model name when the catalog has no entry of its provider type
\* (and such an entry exists), and to no model otherwise.
C11_FallbackGated ==
  (/\ llmOp.op = "resolveModelId"
   /\ parseModelId(llmOp.id, providers).ok
   /\ ~MatchedByTier(llmOp.id, cachedModels, providers))
    => llmOp.result.model =
         IF /\ KindEntries(llmOp.id, cachedModels, providers) = {}
            /\ BaseMatches(llmOp.id, cachedModels, providers) # {}
         THEN cachedModels[Min(BaseMatches(llmOp.id, cachedModels, providers))]
         ELSE NoModel

\* An id of a provider type that has no entry is resolved to the entry of
\* another provider.
C11_Witness ==
  /\ llmOp.op = "resolveModelId"
  /\ parseModelId(llmOp.id, providers).ok
  /\ ~MatchedByTier(llmOp.id, cachedModels, providers)
  /\ KindEntries(llmOp.id, cachedModels, providers) = {}
  /\ llmOp.result.model # NoModel
  /\ llmOp.result.model.provider # parseModelId(llmOp.id, providers).provider

\* An id of a provider type that has entries, none of them this model, is
\* resolved to no model although another provider has its base model name.
C11_WitnessGated ==
  /\ llmOp.op = "resolveModelId"
  /\ parseModelId(llmOp.id, providers).ok
  /\ ~MatchedByTier(llmOp.id, cachedModels, providers)
  /\ KindEntries(llmOp.id, cachedModels, providers) # {}
  /\ BaseMatches(llmOp.id, cachedModels, providers) # {}
  /\ llmOp.result.model = NoModel

\* The model names ids are made of: those the providers list, and one
\* with a colon.
IdModelNames == ModelNames \cup {FtGpt4}

\* C13: parsing the standard id made of a provider type and a model name
\* gives that provider type and that model name, also for names that
\* contain "/" or ":".
C13_ParseOfCreate ==
  \A k \in Kinds, n \in IdModelNames :
    (llmOp.op = "parseModelId" /\ llmOp.id = createStandardModelId(k, n))
      => /\ llmOp.result.ok
         /\ llmOp.result.provider = k
         /\ llmOp.result.model = n

\* The id of a model name with a "/" was parsed, and that of one with ":".
C13_Witness ==
  /\ llmOp.op = "parseModelId"
  /\ \/ llmOp.id = createStandardModelId("openrouter", OrGpt4)
     \/ llmOp.id = createStandardModelId("claude", FtGpt4)
  /\ llmOp.result.model \in {OrGpt4, FtGpt4}

\* C12: resolveModelId of the standard id made of a provider type and a
\* model name returns that id as the canonical id, whether or not the id
\* resolves to a catalog entry.
C12_RoundTrip ==
  \A k \in Kinds, n \in ModelNames :
    (llmOp.op = "resolveModelId" /\ llmOp.id = createStandardModelId(k, n))
      => llmOp.result.canonicalId = llmOp.id

\* C12 (amended): the canonical id is the id passed in when it resolves to
\* no entry or to an entry of that provider type and model name; when it
\* resolves to an entry of another provider type or model name (the
\* cross-provider fallback), the canonical id is the standard id of that
\* entry and differs from the id passed in.
C12_RoundTripUnlessFallback ==
  \A k \in Kinds, n \in ModelNames :
    (llmOp.op = "resolveModelId" /\ llmOp.id = createStandardModelId(k, n))
      => LET r == llmOp.result
             same == r.model.provider = k /\ r.model.model = n
         IN /\ r.model = NoModel => r.canonicalId = llmOp.id
            /\ (r.model # NoModel /\ same) => r.canonicalId = llmOp.id
            /\ (r.model # NoModel /\ ~same)
                 => /\ r.canonicalId =
                         createStandardModelId(r.model.provider, r.model.model)
                    /\ r.canonicalId # llmOp.id

\* A standard id was resolved through the cross-provider fallback.
C12_Witness ==
  /\ llmOp.op = "resolveModelId"
  /\ \E k \in Kinds, n \in ModelNames : llmOp.id = createStandardModelId(k, n)
  /\ llmOp.result.model # NoModel
  /\ ~MatchedByTier(llmOp.id, cachedModels, providers)
  /\ llmOp.result.canonicalId # llmOp.id

\* The number of calls of fetchModelsForProvider for provider p.
Calls(p) == Cardinality({i \in DOMAIN listCalls : listCalls[i] = p})

\* The loop of refreshModelCache that has just completed, if the last step
\* was the completion of one.
JustCompleted ==
  llmOp.op = "fetchModelsSettled" /\ llmOp.result = "completed"
CompletedLoop == refreshes[llmOp.loop]

\* Some calls of fetchModelsForProvider of the loop failed and others
\* succeeded.
Mixed(loop) ==
  /\ \E i \in DOMAIN loop.responses : loop.responses[i].ok
  /\ \E i \in DOMAIN loop.responses : ~loop.responses[i].ok

\* The (provider id, model name) pairs the providers of the loop returned
\* in calls that succeeded, from provider i on, in order.
RECURSIVE Returned(_, _)
Returned(loop, i) ==
  IF i > Len(loop.responses) THEN <<>>
  ELSE (IF loop.responses[i].ok
        THEN [j \in DOMAIN loop.responses[i].models |->
                <<loop.providers[i].id, loop.responses[i].models[j]>>]
        ELSE <<>>)
       \o Returned(loop, i + 1)

\* The (provider id, model name) pairs of the catalog, in order.
Listed(models) ==
  [i \in DOMAIN models |-> <<models[i].providerId, models[i].model>>]

CallsOf(loop, p) ==
  Cardinality({i \in 1..loop.i : loop.providers[i].id = p})

\* C15: at most one loop of refreshModelCache exists at a time, a call
\* made while one is active starts none, and fetchModelsForProvider has
\* been called exactly once for every provider the loop has come to (and
\* for no other) however many calls of refreshModelCache were made since
\* it started.
C15_SingleRefreshInFlight ==
  /\ Len(refreshes) <= 1
  /\ refreshModelsInFlight <=> ActiveRefreshes(refreshes) # {}
  /\ (llmOp.op = "refreshModelCache" /\ llmOp.result = "ignored")
       => ActiveRefreshes(refreshes) # {}
  /\ \A p \in ProviderIds :
       Calls(p) = IF refreshes = <<>> THEN 0 ELSE CallsOf(refreshes[1], p)
  /\ \A p \in ProviderIds : Calls(p) <= 1

\* refreshModelCache was called while a loop was at its second provider,
\* and each of the two providers has been called once.
C15_Witness ==
  /\ llmOp.op = "refreshModelCache"
  /\ llmOp.result = "ignored"
  /\ refreshes # <<>>
  /\ refreshes[1].pc = "fetching"
  /\ refreshes[1].i = 2
  /\ \A i \in 1..2 : Calls(refreshes[1].providers[i].id) = 1

\* C16: callLLM for a model with an empty API key fails with a
\* missing-credential error and calls fetch not once.
C16_MissingCredentialBeforeNetwork ==
  (llmOp.op = "callLLM" /\ llmOp.credential = "")
    => /\ llmOp.fetches = 0
       /\ llmOp.outcome = "missing-credential"

\* C18: when a refresh has completed, no two entries of the catalog have
\* the same id.
C18_IdsUniqueInCatalog ==
  JustCompleted
    => \A i, j \in DOMAIN cachedModels :
         cachedModels[i].id = cachedModels[j].id => i = j

\* The provider of the registry that has the id a model was fetched with.
Owners(m, provs) == {i \in DOMAIN provs : provs[i].id = m.providerId}

\* C19: getModelWithProvider returns no model when the id resolves to
\* none; otherwise the resolved model, with its own API key and base URL
\* where they are not empty and, where one is empty, the current API key
\* of the provider it was fetched with, or that provider's base URL (its
\* type's default when the provider has none).
C19_HydrateFillsEmptyOnly ==
  llmOp.op = "getModelWithProvider"
    => LET m == getModelById(llmOp.id, cachedModels, providers)
           r == llmOp.result
       IN /\ m = NoModel => r = NoModel
          /\ \A i \in Owners(m, providers) :
               m # NoModel
                 => LET owner == providers[i]
                        endpoint ==
                          IF owner.baseUrl # "" THEN owner.baseUrl
                          ELSE getProviderDefaultBaseUrl(owner.provider)
                    IN /\ r.id = m.id /\ r.model = m.model
                       /\ r.providerId = m.providerId
                       /\ r.apiKey = IF m.apiKey # "" THEN m.apiKey
                                     ELSE owner.apiKey
                       /\ r.baseUrl = IF m.baseUrl # "" THEN m.baseUrl
                                      ELSE endpoint

\* A model stored without API key and base URL was returned with those of
\* its provider.
C19_Witness ==
  /\ llmOp.op = "getModelWithProvider"
  /\ LET m == getModelById(llmOp.id, cachedModels, providers)
     IN /\ m # NoModel
        /\ Owners(m, providers) # {}
        /\ m.apiKey = "" /\ m.baseUrl = ""
        /\ llmOp.result.apiKey # "" /\ llmOp.result.baseUrl # ""

\* A model whose API key differs from its provider's current one was
\* returned with its own.
C19_WitnessKept ==
  /\ llmOp.op = "getModelWithProvider"
  /\ LET m == getModelById(llmOp.id, cachedModels, providers)
     IN /\ m # NoModel
        /\ \E i \in Owners(m, providers) :
             providers[i].apiKey \notin {"", m.apiKey}
        /\ llmOp.result.apiKey = m.apiKey

----------------------------------------------------------------------------
\* C21: when stopCode(c) returns, no timeout that scheduleCodeRun armed for
\* c is still armed, so that no run of c starts unless it is asked for
\* again.
C21_StopCancelsEveryTimer ==
  lastOp.op = "stop" => \A t \in timers : t.cell # lastOp.cell

\* C22: a run of a cell that is dispatched after stopCode resolved an
\* earlier run of the cell carries a version above that of the stopped run.
C22_VersionAboveStoppedRun ==
  (lastOp.op = "resume" /\ lastOp.result \in {"sent", "unheard"})
    => \A g \in DOMAIN runs :
         (runs[g].cell = lastOp.cell /\ runs[g].outcome = StoppedOutcome)
           => runs[g].version < runs[lastOp.n].version

\* C28: a reply that carries the cellId and version of a reply accepted
\* before is dropped: the handler changes neither the manager's
\* bookkeeping nor the cell's output, error or recorded duration.
C28_DuplicateReplyDropped ==
  (lastOp.op = "message" /\ lastOp.again) => ~lastOp.changed

\* C29: a cell that isRunning reports as running has a sandbox whose iframe
\* is in the document, and a pending future recorded with the cell's
\* current version.
C29_RunningHasSandboxAndPending ==
  \A c \in CodeCells :
    c \in codeRunning
      => /\ sandboxes[c] # 0 /\ Attached(sandboxes[c])
         /\ pendingResolvers[c] # NoPending
         /\ pendingResolvers[c].version = codeVersions[c]

\* The positions of the catalog entries whose id is `id`.
ExactMatches(id, models) == {i \in DOMAIN models : models[i].id = id}

\* The positions of the entries with the provider id and model name of a
\* legacy id.
LegacyMatches(id, models, provs) ==
  LET parsed == parseModelId(id, provs)
  IN {i \in DOMAIN models :
        /\ parsed.ok /\ parsed.legacyProviderId # <<>>
        /\ models[i].providerId = parsed.legacyProviderId
        /\ models[i].model = parsed.model}

\* The positions of the entries with the parsed provider type and model
\* name of `id`.
TypeMatches(id, models, provs) ==
  LET parsed == parseModelId(id, provs)
  IN {i \in DOMAIN models :
        /\ parsed.ok
        /\ models[i].provider = parsed.provider
        /\ models[i].model = parsed.model}

\* C23: resolveModelId returns the first entry whose id is the id passed
\* in; if there is none, for a legacy id the first entry with its provider
\* id and model name; if there is none, the first entry with the parsed
\* provider type and model name.
C23_TiersInOrder ==
  LET id == llmOp.id
      exact == ExactMatches(id, cachedModels)
      legacy == LegacyMatches(id, cachedModels, providers)
      type == TypeMatches(id, cachedModels, providers)
  IN (llmOp.op = "resolveModelId" /\ exact \cup legacy \cup type # {})
       => llmOp.result.model =
            IF exact # {} THEN cachedModels[Min(exact)]
            ELSE IF legacy # {} THEN cachedModels[Min(legacy)]
            ELSE cachedModels[Min(type)]

\* A legacy id was resolved to the entry of its provider although an
\* earlier entry has its provider type and model name.
C23_Witness ==
  /\ llmOp.op = "resolveModelId"
  /\ ExactMatches(llmOp.id, cachedModels) = {}
  /\ LegacyMatches(llmOp.id, cachedModels, providers) # {}
  /\ Min(TypeMatches(llmOp.id, cachedModels, providers))
       < Min(LegacyMatches(llmOp.id, cachedModels, providers))
  /\ llmOp.result.model.providerId
       = parseModelId(llmOp.id, providers).legacyProviderId

\* An id was resolved to the entry that has it as its id.
C23_WitnessExact ==
  /\ llmOp.op = "resolveModelId"
  /\ ExactMatches(llmOp.id, cachedModels) # {}
  /\ llmOp.result.model.id = llmOp.id

\* C24: the canonical id resolveModelId returns for an id is its own
\* canonical id in the same catalog, and an id that resolves to no model
\* is returned as it was passed in.
C24_CanonicalIdempotent ==
  llmOp.op = "resolveModelId"
    => /\ resolveModelId(llmOp.result.canonicalId, cachedModels,
                         providers).canonicalId
            = llmOp.result.canonicalId
       /\ llmOp.result.model = NoModel => llmOp.result.canonicalId = llmOp.id

\* An id was made canonical as another id, which resolves to an entry.
C24_Witness ==
  /\ llmOp.op = "resolveModelId"
  /\ llmOp.result.model # NoModel
  /\ llmOp.result.canonicalId # llmOp.id
  /\ resolveModelId(llmOp.result.canonicalId, cachedModels,
                    providers).model = llmOp.result.model

\* An id that resolves to no entry of a catalog that has entries was
\* returned as it was.
C24_WitnessUnknown ==
  /\ llmOp.op = "resolveModelId"
  /\ cachedModels # <<>>
  /\ llmOp.result.model = NoModel
  /\ llmOp.result.canonicalId = llmOp.id

\* The calls of fetchModelsForProvider of the loop that failed.
Failed(loop) == {i \in DOMAIN loop.responses : ~loop.responses[i].ok}

C25_WitnessEmptySuccess ==
  /\ JustCompleted
  /\ Failed(CompletedLoop) = {}
  /\ cachedModels = <<>>
  /\ modelCacheStatus.type = "success"

\* C26: a call of refreshModelCache that finds no provider in the settings
\* reports "Add a provider to fetch models." and changes neither the
\* catalog, its timestamp, the in-flight flag nor the calls of
\* fetchModelsForProvider.
C26_EmptyRegistryRefresh ==
  [][(llmOp'.op = "refreshModelCache" /\ providers' = <<>>)
       => /\ modelCacheStatus' = Status("add-provider", "warn")
          /\ UNCHANGED <<cachedModels, cacheTimestamp, refreshModelsInFlight,
                         listCalls>>]_vars

\* C26 (amended): the same of a call made while no refresh is in flight; a
\* call made while one is in flight changes none of them either and
\* leaves the status as it is.
C26_EmptyRegistryRefreshWhenIdle ==
  [][(llmOp'.op = "refreshModelCache" /\ providers' = <<>>)
       => /\ modelCacheStatus' =
               IF refreshModelsInFlight THEN modelCacheStatus
               ELSE Status("add-provider", "warn")
          /\ UNCHANGED <<cachedModels, cacheTimestamp, refreshModelsInFlight,
                         listCalls>>]_vars

\* refreshModelCache has found no provider while the catalog has entries
\* and no refresh is in flight.
C26_Witness ==
  /\ llmOp.op = "refreshModelCache" /\ llmOp.result = "unconfigured"
  /\ providers = <<>>
  /\ cachedModels # <<>>
  /\ ~refreshModelsInFlight
  /\ modelCacheStatus = Status("add-provider", "warn")

\* C27: the catalog and its timestamp change only in the step that
\* completes a refresh, and together: the catalog becomes the models of
\* all the providers of the loop and the timestamp is renewed. Between the
\* calls of fetchModelsForProvider the catalog is the one the refresh
\* found.
C27_CatalogReplacedWhole ==
  [][(cachedModels' # cachedModels \/ cacheTimestamp' # cacheTimestamp)
       => /\ llmOp'.op = "fetchModelsSettled" /\ llmOp'.result = "completed"
          /\ Len(refreshes'[llmOp'.loop].responses)
               = Len(refreshes'[llmOp'.loop].providers)
          /\ Listed(cachedModels') = Returned(refreshes'[llmOp'.loop], 1)
          /\ cacheTimestamp' = cacheTimestamp + 1]_vars

\* A caller resolves an id while a refresh has collected the models of its
\* first provider and awaits the second: the catalog still is the earlier
\* one, which has entries.
C27_Witness ==
  /\ llmOp.op = "resolveModelId"
  /\ \E r \in DOMAIN refreshes :
       /\ refreshes[r].pc = "fetching"
       /\ refreshes[r].i = 2
       /\ refreshes[r].collected # <<>>
  /\ cachedModels # <<>>
  /\ \A r \in DOMAIN refreshes : cachedModels # refreshes[r].collected

\* C30: when no refresh is in flight and the last call of refreshModelCache
\* passed a non-empty provider list, every entry of the catalog has the id
\* of a provider of the settings as its providerId.
C30_CatalogOfCurrentProviders ==
  (~refreshModelsInFlight /\ overrideGiven)
    => \A i \in DOMAIN cachedModels :
         \E j \in DOMAIN providers : providers[j].id = cachedModels[i].providerId

\* C31: when every call of fetchModelsForProvider settles, a refresh that
\* has set refreshModelsInFlight clears it again, whichever calls fail; the
\* flag is set only while a loop of refreshModelCache awaits a call, so no
\* call made after the completion is ignored.
C31_FlagEventuallyCleared ==
  /\ refreshModelsInFlight ~> ~refreshModelsInFlight
  /\ [](refreshModelsInFlight => ActiveRefreshes(refreshes) # {})
  /\ []((llmOp.op = "refreshModelCache" /\ llmOp.result = "ignored")
          => ActiveRefreshes(refreshes) # {})

\* A refresh in which every call failed has completed and the flag is
\* clear.
C31_Witness ==
  /\ JustCompleted
  /\ Failed(CompletedLoop) = DOMAIN CompletedLoop.responses
  /\ Len(CompletedLoop.responses) = 2
  /\ ~refreshModelsInFlight

============================================================================
